---- MODULE Spec2Model ----
(***************************************************************************)
(* Model of the OpenCore log analyzer (src/main.py): the line classifier,  *)
(* the junk-line heuristic, collision-safe naming, the cleaner, the split  *)
(* writer and the chunked background loader with its polling consumer.     *)
(*                                                                         *)
(* Text is modelled at character level: a string is a sequence of          *)
(* one-character strings, so that joining, splitting, prefix tests and     *)
(* regular-expression word boundaries are computed, not assumed.           *)
(***************************************************************************)
EXTENDS Integers, Sequences, FiniteSets, TLC

VARIABLES
    line, cls,                      \* classifier run: the line built so far and classify_line(line)
    fs, log,                        \* file operations: the directory, the record of the calls made
    file, failAt, chunk, started,   \* loader: per-thread source text, injected read failure, chunk size
    fh,                             \* loader: the lines each thread's open file yields when iterated
    pc, pos, cur, batch, count,     \* loader: LogLoaderThread.run locals per thread
    stopFlag, queue, produced,      \* loader: _stop event, shared queue, history of puts per thread
    stopAt,                         \* loader: where each thread's run was when stop() was called
    view, status, guiPath, taken,   \* consumer: text widget, status bar, self.path, history of gets
    pgPc, pgLines, pgFilter, pgSize,\* pager: position in pseudo_gui_mode, its source lines and arguments
    pgPos, page, printed, screen,   \* pager: lines taken, the page, the counter, what was printed and typed
    jline, junk                     \* junk detector run: the line built so far and is_junk_line(jline)

classVars == <<line, cls>>
fileVars  == <<fs, log>>
loadVars  == <<file, fh, failAt, chunk, started, pc, pos, cur, batch, count,
               stopFlag, queue, produced, stopAt, view, status, guiPath, taken>>
pagerVars == <<pgPc, pgLines, pgFilter, pgSize, pgPos, page, printed, screen>>
junkVars  == <<jline, junk>>
vars      == <<line, cls, fs, log, file, fh, failAt, chunk, started,
               pc, pos, cur, batch, count, stopFlag, queue, produced, stopAt,
               view, status, guiPath, taken,
               pgPc, pgLines, pgFilter, pgSize, pgPos, page, printed, screen,
               jline, junk>>

(***************************************************************************)
(* Characters and strings                                                  *)
(***************************************************************************)
NUL == "NUL"
LF  == "\n"
CR  == "\r"
SP  == " "

LowerLetters == <<"a","b","c","d","e","f","g","h","i","j","k","l","m",
                  "n","o","p","q","r","s","t","u","v","w","x","y","z">>
UpperLetters == <<"A","B","C","D","E","F","G","H","I","J","K","L","M",
                  "N","O","P","Q","R","S","T","U","V","W","X","Y","Z">>
Digits       == {"0","1","2","3","4","5","6","7","8","9"}

Range(s) == {s[i] : i \in DOMAIN s}

SpaceChars == {SP, "\t", LF, CR}

\* str.isspace for the characters of the model's alphabet
IsSpace(c) == c \in SpaceChars

WordChars == Range(LowerLetters) \cup Range(UpperLetters) \cup Digits \cup {"_"}

\* \w of Python's re for str patterns: alphanumerics and the underscore
IsWordChar(c) == c \in WordChars

UpperOf == [c \in Range(LowerLetters) |->
               UpperLetters[CHOOSE i \in DOMAIN LowerLetters : LowerLetters[i] = c]]

\* case folding of re.IGNORECASE on the model's alphabet
ToUpper(c) == IF c \in DOMAIN UpperOf THEN UpperOf[c] ELSE c

LowerOf == [c \in Range(UpperLetters) |->
               LowerLetters[CHOOSE i \in DOMAIN UpperLetters : UpperLetters[i] = c]]

\* str.lower on the model's alphabet
Lower(s) == [i \in DOMAIN s |-> IF s[i] \in DOMAIN LowerOf THEN LowerOf[s[i]] ELSE s[i]]

Rep(c, n) == [i \in 1..n |-> c]

RECURSIVE Join(_)
\* ''.join(parts)
Join(parts) == IF parts = <<>> THEN <<>> ELSE Head(parts) \o Join(Tail(parts))

\* s.startswith(prefix)
StartsWith(s, prefix) ==
    /\ Len(s) >= Len(prefix)
    /\ SubSeq(s, 1, Len(prefix)) = prefix

(***************************************************************************)
(* Classifier: LEVEL_MAP, LEVEL_PATTERNS, classify_line                    *)
(***************************************************************************)
BS == "\\"

\* LEVEL_MAP in declaration order: pattern source text and category
LEVEL_MAP == <<
    [src |-> <<BS,"b","F","A","T","A","L",BS,"b">>,                               lvl |-> "error"],
    [src |-> <<BS,"b","E","R","R","O","R",BS,"b">>,                               lvl |-> "error"],
    [src |-> <<BS,"b","E","R","R",BS,"b">>,                                       lvl |-> "error"],
    [src |-> <<BS,"b","I","N","V","A","L","I","D",BS,"b">>,                       lvl |-> "error"],
    [src |-> <<BS,"b","W","A","R","N","(","?",":","I","N","G",")","?",BS,"b">>,   lvl |-> "warning"],
    [src |-> <<BS,"b","W","A","R","N","I","N","G",BS,"b">>,                       lvl |-> "warning"],
    [src |-> <<BS,"b","I","N","F","O",BS,"b">>,                                   lvl |-> "info"],
    [src |-> <<BS,"b","D","B","G",BS,"b">>,                                       lvl |-> "debug"],
    [src |-> <<BS,"b","D","E","B","U","G",BS,"b">>,                               lvl |-> "debug"],
    [src |-> <<BS,"b","S","U","C","C","E","S","S",BS,"b">>,                       lvl |-> "success"],
    [src |-> <<BS,"b","O","K",BS,"b">>,                                           lvl |-> "success"],
    [src |-> <<BS,"b","M","A","C",BS,"b">>,                                       lvl |-> "platform-info"] >>

\* COLOR_TAGS.keys()
Categories == {"error", "warning", "info", "debug", "success", "platform-info", "other"}

MaxSrcLen == CHOOSE n \in {Len(LEVEL_MAP[i].src) : i \in DOMAIN LEVEL_MAP} :
                 \A i \in DOMAIN LEVEL_MAP : Len(LEVEL_MAP[i].src) <= n

RECURSIVE ByLenAsc(_, _, _)
ByLenAsc(entries, n, top) ==
    IF n > top THEN <<>>
    ELSE SelectSeq(entries, LAMBDA e : Len(e.src) = n) \o ByLenAsc(entries, n + 1, top)

\* a plausible slip: the sort key without its minus sign, shortest source first
ByLenDesc_asc(entries, n) == ByLenAsc(entries, 1, n)

RECURSIVE ByLenDesc(_, _)
\* stable sort of the entries by descending source length
ByLenDesc(entries, n) ==
    IF n = 0 THEN <<>>
    ELSE SelectSeq(entries, LAMBDA e : Len(e.src) = n) \o ByLenDesc(entries, n - 1)

\* a plausible slip: the entries tried in declaration order
SortedItems_decl(entries) == entries

\* sorted(LEVEL_MAP.items(), key=lambda x: -len(x[0]))
SortedItems(entries) == ByLenDesc(entries, MaxSrcLen)

\* re.compile(pat): the words a pattern \bW\b or \bW(?:X)?\b accepts
Compile(src) ==
    LET body == SubSeq(src, 3, Len(src) - 2)
        open == {i \in DOMAIN body : body[i] = "("}
    IN  IF open = {}
        THEN {body}
        ELSE LET o    == CHOOSE i \in open : TRUE
                 base == SubSeq(body, 1, o - 1)
                 opt  == SubSeq(body, o + 3, Len(body) - 2)
             IN  {base, base \o opt}

LEVEL_PATTERNS ==
    LET items == SortedItems(LEVEL_MAP)
    IN  [i \in DOMAIN items |-> [words |-> Compile(items[i].src), lvl |-> items[i].lvl]]

\* \b at the gap before position i (1 .. Len(s)+1)
Boundary(s, i) ==
    LET before == i > 1 /\ IsWordChar(s[i - 1])
        after  == i <= Len(s) /\ IsWordChar(s[i])
    IN  before # after

\* the literal w matches s at position i, ignoring case
MatchAt(s, i, w) ==
    /\ i + Len(w) - 1 <= Len(s)
    /\ \A k \in 1..Len(w) : ToUpper(s[i + k - 1]) = ToUpper(w[k])

\* pat.search(line) for a compiled \b(words)\b pattern
Search(words, s) ==
    \E i \in 1..Len(s) :
        /\ Boundary(s, i)
        /\ \E w \in words : MatchAt(s, i, w) /\ Boundary(s, i + Len(w))

RECURSIVE FirstMatch(_, _, _)
FirstMatch(pats, i, s) ==
    IF i > Len(pats) THEN "other"
    ELSE IF Search(pats[i].words, s) THEN pats[i].lvl
    ELSE FirstMatch(pats, i + 1, s)

classify_line(s) ==
    IF s = <<>> THEN "other" ELSE FirstMatch(LEVEL_PATTERNS, 1, s)

(***************************************************************************)
(* Classifier run: a line is assembled word by word, each word followed by *)
(* a separator, and classified after each extension.                       *)
(***************************************************************************)
MaxWords == 3

Words == {
    <<"E","R","R","O","R">>, <<"e","r","r","o","r">>,
    <<"E","r","r","o","r","s">>, <<"_","E","R","R","O","R">>,
    <<"W","A","R","N">>, <<"w","a","r","n","i","n","g">>,
    <<"I","N","V","A","L","I","D">>, <<"S","U","C","C","E","S","S">>,
    <<"F","A","T","A","L">>, <<"D","E","B","U","G">>, <<"I","N","F","O">>,
    <<"O","K">>, <<"M","A","C">> }

ClassInit ==
    /\ line = <<>>
    /\ cls = classify_line(<<>>)

\* classify_line applied to the line extended by one more word
Classify(w) ==
    /\ Cardinality({i \in DOMAIN line : line[i] = SP}) < MaxWords
    /\ line' = line \o w \o <<SP>>
    /\ cls' = classify_line(line')
    /\ UNCHANGED <<fileVars, loadVars, pagerVars, junkVars>>

(***************************************************************************)
(* Junk detector: is_junk_line                                             *)
(***************************************************************************)
NUL_RATIO_PERCENT == 50
MIN_VISIBLE == 5
LONG_LINE == 80

\* s.rstrip(chars): s up to its last character that is not in chars
RStrip(s, chars) ==
    LET keep == {i \in DOMAIN s : s[i] \notin chars}
    IN  IF keep = {} THEN <<>>
        ELSE SubSeq(s, 1, CHOOSE i \in keep : \A j \in keep : j <= i)

\* raw.count("\x00")
CountNul(s) == Cardinality({i \in DOMAIN s : s[i] = NUL})

\* a plausible slip: every character counted as visible
CountVisible_all(s) == Len(s)

\* len(visible): the characters that are neither NUL, line ends nor whitespace
CountVisible(s) == Cardinality({i \in DOMAIN s : s[i] \notin {NUL, LF, CR} /\ ~IsSpace(s[i])})

is_junk_line(s) ==
    IF s = <<>> THEN TRUE
    ELSE LET raw == RStrip(s, {LF, CR})
         IN  \/ \A i \in DOMAIN raw : IsSpace(raw[i])
             \/ Len(raw) > 0 /\ CountNul(raw) * 100 > NUL_RATIO_PERCENT * Len(raw)
             \/ CountVisible(raw) < MIN_VISIBLE /\ Len(raw) > LONG_LINE

\* s.lstrip(chars): s from its first character that is not in chars
LStrip(s, chars) ==
    LET keep == {i \in DOMAIN s : s[i] \notin chars}
    IN  IF keep = {} THEN <<>>
        ELSE SubSeq(s, CHOOSE i \in keep : \A j \in keep : i <= j, Len(s))

\* s.strip()
Strip(s) == LStrip(RStrip(s, SpaceChars), SpaceChars)

(***************************************************************************)
(* Text files: content is a character sequence; reading in text mode       *)
(* yields lines with universal newlines (\r\n and \r become \n).          *)
(***************************************************************************)
\* position i of s ends a line: a \n, or a \r that no \n follows
IsLineEnd(s, i) == s[i] = LF \/ (s[i] = CR /\ ~(i < Len(s) /\ s[i + 1] = LF))

RECURSIVE NextEnd(_, _)
\* the first line end of s at or after position i, 0 when there is none
NextEnd(s, i) ==
    IF i > Len(s) THEN 0
    ELSE IF IsLineEnd(s, i) THEN i
    ELSE NextEnd(s, i + 1)

RECURSIVE PiecesFrom(_, _)
PiecesFrom(s, from) ==
    IF from > Len(s) THEN <<>>
    ELSE LET e == NextEnd(s, from)
         IN  IF e = 0 THEN <<SubSeq(s, from, Len(s))>>
             ELSE <<SubSeq(s, from, e)>> \o PiecesFrom(s, e + 1)

\* the pieces of s cut after each line end, ends kept; a last piece without
\* an end is kept too
Pieces(s) == PiecesFrom(s, 1)

\* newline=None on reading: the line end \r\n or \r is handed on as \n
Translate(l) ==
    IF l = <<>> \/ l[Len(l)] \notin {LF, CR} THEN l
    ELSE IF Len(l) >= 2 /\ l[Len(l) - 1] = CR /\ l[Len(l)] = LF
    THEN SubSeq(l, 1, Len(l) - 2) \o <<LF>>
    ELSE SubSeq(l, 1, Len(l) - 1) \o <<LF>>

\* the lines `for line in fh` yields for a file of this content
ReadLines(content) ==
    LET ps == Pieces(content) IN [k \in DOMAIN ps |-> Translate(ps[k])]

(***************************************************************************)
(* Directory and paths.  A path is the sequence of the "_"-separated parts *)
(* of its stem (all files share one directory and the suffix ".log"); a    *)
(* directory is the content of its explicit files plus a set of stems      *)
(* whose numbered variants _1 .. _999 all exist as empty files.            *)
(***************************************************************************)
RANGE_END == 1000

NumberTokens == {ToString(i) : i \in 1..(RANGE_END - 1)}

\* p.exists()
Exists(d, p) ==
    \/ p \in DOMAIN d.files
    \/ /\ d.packed # {}
       /\ Len(p) > 1
       /\ SubSeq(p, 1, Len(p) - 1) \in d.packed
       /\ p[Len(p)] \in NumberTokens

Content(d, p) == IF p \in DOMAIN d.files THEN d.files[p] ELSE <<>>

\* open(p, 'w') ... write(text) ... close(): the file holds exactly text
WriteFile(d, p, text) == [d EXCEPT !.files = (p :> text) @@ d.files]

\* p.with_name(f"{base}_{i}{ext}")
Numbered(p, i) == Append(p, ToString(i))

RECURSIVE FirstFree(_, _, _, _)
\* the first i of lo..hi, in order, whose numbered name does not exist
\* (0 when there is none); the search halves the range to keep it shallow
FirstFree(d, p, lo, hi) ==
    IF lo > hi THEN 0
    ELSE IF lo = hi THEN (IF ~Exists(d, Numbered(p, lo)) THEN lo ELSE 0)
    ELSE LET mid   == (lo + hi) \div 2
             lower == FirstFree(d, p, lo, mid)
         IN  IF lower # 0 THEN lower ELSE FirstFree(d, p, mid + 1, hi)

\* make_unique_path(p), int(time.time()) being t
make_unique_path(d, p, t) ==
    IF ~Exists(d, p) THEN p
    ELSE LET i == FirstFree(d, p, 1, RANGE_END - 1)
         IN  IF i # 0 THEN Numbered(p, i) ELSE Numbered(p, t)

(***************************************************************************)
(* Cleaner: clean_whitespace_lines                                         *)
(***************************************************************************)
\* path.with_name(path.stem + "_cleaned" + path.suffix)
CleanedName(p) == Append(p, "cleaned")

RECURSIVE CleanLoop(_, _)
\* the copy loop: junk lines are skipped, the others written in turn
CleanLoop(lines, out) ==
    IF lines = <<>> THEN out
    ELSE IF is_junk_line(Head(lines)) THEN CleanLoop(Tail(lines), out)
    ELSE CleanLoop(Tail(lines), out \o Head(lines))

\* the record of one call: what it was given, the directory before it, the
\* files it opened for writing, the lines it read, the error it raised and
\* the order of its steps on handles and on the source
Call(op, src, inplace, before, opened, input, raised, events) ==
    [op |-> op, src |-> src, inplace |-> inplace, before |-> before,
     opened |-> opened, input |-> input, raised |-> raised, events |-> events]

\* one step of a call: a handle opened or closed, a line read or written,
\* an error raised inside the call, the call left by return or by raise
Event(ev, lvl, n) == [ev |-> ev, lvl |-> lvl, n |-> n]

Opened(lvl, p, unique, d) ==
    [lvl |-> lvl, path |-> p, unique |-> unique, existed |-> Exists(d, p)]

clean_whitespace_lines(path, inplace, t) ==
    IF ~Exists(fs, path)
    THEN /\ fs' = fs
         /\ log' = Append(log, Call("clean", path, inplace, fs, <<>>, <<>>,
                                    "FileNotFoundError", <<>>))
    ELSE LET out_path == IF inplace THEN path
                         ELSE make_unique_path(fs, CleanedName(path), t)
             \* inf is opened, then outf is opened for writing, which
             \* creates or truncates it; the lines are read after that
             truncated == WriteFile(fs, out_path, <<>>)
             lines     == ReadLines(Content(truncated, path))
         IN  /\ fs' = WriteFile(truncated, out_path, CleanLoop(lines, <<>>))
             /\ log' = Append(log, Call("clean", path, inplace, fs,
                                        <<Opened("cleaned", out_path, ~inplace, fs)>>, lines,
                                        "", <<>>))

(***************************************************************************)
(* Split writer: save_split_logs fed by iter_lines(path), prefix=path.stem *)
(***************************************************************************)
SinkLevels == <<"error", "warning", "info", "debug", "success", "platform-info">>

\* set(COLOR_TAGS.keys()) iterates in an order the hash seed decides; two
\* of the orders are considered
SinkOrders == {SinkLevels, [i \in DOMAIN SinkLevels |-> SinkLevels[Len(SinkLevels) + 1 - i]]}

\* output_dir / f"{prefix + '_' if prefix else ''}{lvl}.log"
SinkName(prefix, lvl) == prefix \o <<lvl>>

RECURSIVE OpenSinks(_, _, _, _, _)
\* lines 147-154: each level's sink gets a unique path and is created
OpenSinks(d, order, prefix, t, acc) ==
    IF order = <<>> THEN [dir |-> d, opened |-> acc]
    ELSE LET lvl == Head(order)
             p   == make_unique_path(d, SinkName(prefix, lvl), t)
         IN  OpenSinks(WriteFile(d, p, <<>>), Tail(order), prefix, t,
                       Append(acc, Opened(lvl, p, TRUE, d)))

\* a plausible slip: every line goes to the fallback sink
Route_other(lvl, handles) == "other"

\* lines 159-160
Route(lvl, handles) == IF lvl \notin handles THEN "other" ELSE lvl

\* an I/O failure the environment may inject into one call: the n-th open of
\* a sink, the n-th step of the line source, or the write of the n-th line
NoFault == [at |-> "none", n |-> 0]

RECURSIVE WriteLoop(_, _, _, _)
\* lines 157-161 from line i on: st.bufs maps each level to the text written
\* to its handle; an error raised by the source or by a write ends the loop
WriteLoop(lines, i, fault, st) ==
    IF fault.at = "read" /\ fault.n = i
    THEN [st EXCEPT !.raised = "OSError",
                    !.events = Append(@, Event("error", "", i))]
    ELSE IF i > Len(lines) THEN st
    ELSE LET lvl  == Route(classify_line(lines[i]), DOMAIN st.bufs)
             read == [st EXCEPT !.consumed = i, !.events = Append(@, Event("read", "", i))]
         IN  IF fault.at = "write" /\ fault.n = i
             THEN [read EXCEPT !.raised = "OSError",
                               !.events = Append(@, Event("error", lvl, i))]
             ELSE WriteLoop(lines, i + 1, fault,
                            [read EXCEPT !.bufs[lvl] = @ \o lines[i],
                                         !.events = Append(@, Event("write", lvl, i))])

RECURSIVE CloseAll(_, _, _)
\* the finally block: closing a handle leaves its file holding what was written
CloseAll(d, opened, bufs) ==
    IF opened = <<>> THEN d
    ELSE CloseAll(WriteFile(d, Head(opened).path, bufs[Head(opened).lvl]), Tail(opened), bufs)

\* a plausible slip: the handles closed after the loop instead of in a
\* finally block, so only when nothing was raised
CloseEvents_noFinally(opened, raised) ==
    IF raised = "" THEN [i \in DOMAIN opened |-> Event("close", opened[i].lvl, 0)] ELSE <<>>

\* lines 162-167: every handle of `handles` is closed, in insertion order,
\* whatever was raised
CloseEvents(opened, raised) ==
    [i \in DOMAIN opened |-> Event("close", opened[i].lvl, 0)]

save_split_logs(src, order, t, fault) ==
    LET prefix  == src
        \* the sinks of lines 147-154 that are opened before an open fails
        upto    == IF fault.at = "open" /\ fault.n <= Len(order) THEN fault.n - 1 ELSE Len(order)
        sinks   == OpenSinks(fs, SubSeq(order, 1, upto), prefix, t, <<>>)
        allOpen == ~(fault.at = "open" /\ fault.n <= Len(order) + 1)
        other   == SinkName(prefix, "other")
        dir     == IF allOpen THEN WriteFile(sinks.dir, other, <<>>) ELSE sinks.dir
        opened  == IF allOpen
                   THEN Append(sinks.opened, Opened("other", other, FALSE, sinks.dir))
                   ELSE sinks.opened
        opens   == [i \in DOMAIN opened |-> Event("open", opened[i].lvl, 0)]
        start   == [bufs     |-> [lvl \in {opened[i].lvl : i \in DOMAIN opened} |-> <<>>],
                    consumed |-> 0,
                    raised   |-> "",
                    events   |-> opens]
        lines   == IF Exists(dir, src) THEN ReadLines(Content(dir, src)) ELSE <<>>
        end     == IF ~allOpen
                   THEN [start EXCEPT !.raised = "OSError",
                                      !.events = Append(@, Event("error", "", 0))]
                   ELSE IF ~Exists(dir, src)
                   THEN \* iter_lines raises at its first step
                        [start EXCEPT !.raised = "FileNotFoundError",
                                      !.events = Append(@, Event("error", "", 1))]
                   ELSE WriteLoop(lines, 1, fault, start)
        leave   == Event(IF end.raised = "" THEN "return" ELSE "raise", "", 0)
    IN  /\ fs' = CloseAll(dir, opened, end.bufs)
        /\ log' = Append(log, Call("split", src, FALSE, fs, opened,
                                    SubSeq(lines, 1, end.consumed), end.raised,
                                    end.events \o CloseEvents(opened, end.raised) \o <<leave>>))

(***************************************************************************)
(* File operations run: a directory, and calls of the cleaner and of the   *)
(* split writer on the input file and on the cleaner's outputs.  A call    *)
(* that reads the clock may read any of a few seconds (time.time() is not  *)
(* monotonic), the same second twice included.                             *)
(***************************************************************************)
MaxCalls == 2
MaxFileLines == 2
MaxTicks == 0

\* the clock shows no number that a numbered name uses
Times == RANGE_END..(RANGE_END + MaxTicks)

Input == <<"boot">>

SampleLines == {
    <<"O","K",LF>>,
    <<"x",CR,LF>>,
    <<SP,LF>>,
    <<NUL,NUL,"x",LF>>,
    <<"a","b">> \o Rep(SP, LONG_LINE) \o <<"c",LF>> }

RECURSIVE Texts(_)
\* the file contents of at most n sample lines
Texts(n) ==
    IF n = 0 THEN {<<>>}
    ELSE LET shorter == Texts(n - 1)
         IN  shorter \cup {t \o l : t \in shorter, l \in SampleLines}

\* the directories a run starts from: the input file missing; the input file
\* alone; the input file beside boot_cleaned.log and all of its numbered
\* variants boot_cleaned_1.log .. boot_cleaned_999.log
InitialDirs ==
    {[files |-> <<>>, packed |-> {}]}
    \cup {[files |-> (Input :> t), packed |-> {}] : t \in Texts(MaxFileLines)}
    \cup {[files |-> (Input :> <<"O","K",LF>>) @@ (CleanedName(Input) :> <<>>),
           packed |-> {CleanedName(Input)}]}

FileInit ==
    /\ fs \in InitialDirs
    /\ log = <<>>

\* no file operation takes part: an empty directory
FileIdle ==
    /\ fs = [files |-> <<>>, packed |-> {}]
    /\ log = <<>>

CleanTargets ==
    {Input} \cup {log[k].opened[1].path : k \in {j \in DOMAIN log : log[j].op = "clean" /\ log[j].raised = ""}}

Clean(path, inplace, t) ==
    /\ Len(log) < MaxCalls
    /\ clean_whitespace_lines(path, inplace, t)
    /\ UNCHANGED <<classVars, loadVars, pagerVars, junkVars>>

\* the failures considered: none; an open of each of the seven sinks; each
\* step of the source; the write of each line
Faults ==
    {NoFault}
    \cup {[at |-> "open", n |-> k] : k \in 1..(Len(SinkLevels) + 1)}
    \cup {[at |-> "read", n |-> k] : k \in 1..(MaxFileLines + 1)}
    \cup {[at |-> "write", n |-> k] : k \in 1..MaxFileLines}

SaveSplit(src, order, t, fault) ==
    /\ Len(log) < MaxCalls
    /\ save_split_logs(src, order, t, fault)
    /\ UNCHANGED <<classVars, loadVars, pagerVars, junkVars>>

(***************************************************************************)
(* Paged viewer: pseudo_gui_mode.  What it prints, the prompts it shows    *)
(* and the answers typed are kept, in order, in screen.                    *)
(***************************************************************************)
MaxPagerLines == 4
MaxPage == 2

Shown(kind, text, n) == [kind |-> kind, text |-> text, n |-> n]

\* match_level of pseudo_gui_mode
match_level(l, filter_levels) ==
    IF filter_levels = {} THEN TRUE ELSE classify_line(l) \in filter_levels

\* a plausible slip: a page is shown only once it exceeds the page size
PageFull_gt(pg, page_size) == Len(pg) > page_size

\* line 191
PageFull(pg, page_size) == Len(pg) >= page_size

\* print(ln.rstrip()) for each line of the page
PrintPage(pg) == [i \in DOMAIN pg |-> Shown("line", RStrip(pg[i], SpaceChars), 0)]

PagerLines == { <<"O","K",LF>>, <<"E","R","R",SP,LF>>, <<"x",LF>> }

RECURSIVE PagerTexts(_)
PagerTexts(n) ==
    IF n = 0 THEN {<<>>}
    ELSE LET shorter == PagerTexts(n - 1)
         IN  shorter \cup {t \o l : t \in shorter, l \in PagerLines}

\* --filter values after lower-casing; the empty set stands for no filter
PagerFilters == { {}, {"success", "other"} }

\* what the user may type at the prompt
Answers == { <<>>, <<SP,"Q",SP>>, <<"q","q">> }

PagerIdle ==
    /\ pgPc = "idle"
    /\ pgLines = <<>>
    /\ pgFilter = {}
    /\ pgSize = 1
    /\ pgPos = 0
    /\ page = <<>>
    /\ printed = 0
    /\ screen = <<>>

\* lines 174-186: the call, on a file that exists and holds text or on a
\* missing one
PagerStart(exists, text, page_size, filter_levels) ==
    /\ pgPc = "idle"
    /\ pgFilter' = filter_levels
    /\ pgSize' = page_size
    /\ IF exists
       THEN /\ pgLines' = ReadLines(text)
            /\ pgPc' = "loop"
            /\ screen' = screen
       ELSE /\ pgLines' = <<>>
            /\ pgPc' = "done"
            /\ screen' = Append(screen, Shown("notfound", <<>>, 0))
    /\ UNCHANGED <<pgPos, page, printed>>
    /\ UNCHANGED <<classVars, fileVars, loadVars, junkVars>>

\* lines 187-197: the loop body for the next line of the source, up to the
\* prompt when the page got full
PagerLine ==
    /\ pgPc = "loop"
    /\ pgPos < Len(pgLines)
    /\ pgPos' = pgPos + 1
    /\ LET l == pgLines[pgPos + 1]
       IN  IF ~match_level(l, pgFilter)
           THEN UNCHANGED <<pgPc, page, printed, screen>>
           ELSE LET pg == Append(page, l)
                IN  IF PageFull(pg, pgSize)
                    THEN /\ printed' = printed + Len(pg)
                         /\ screen' = screen \o PrintPage(pg) \o <<Shown("prompt", <<>>, printed')>>
                         /\ page' = <<>>
                         /\ pgPc' = "prompt"
                    ELSE /\ page' = pg
                         /\ UNCHANGED <<pgPc, printed, screen>>
    /\ UNCHANGED <<pgLines, pgFilter, pgSize>>
    /\ UNCHANGED <<classVars, fileVars, loadVars, junkVars>>

\* lines 197-199: input() returns what was typed; q quits
PagerAnswer(inp) ==
    /\ pgPc = "prompt"
    /\ screen' = Append(screen, Shown("answer", inp, 0))
    /\ pgPc' = IF Lower(Strip(inp)) = <<"q">> THEN "quit" ELSE "loop"
    /\ UNCHANGED <<pgLines, pgFilter, pgSize, pgPos, page, printed>>
    /\ UNCHANGED <<classVars, fileVars, loadVars, junkVars>>

\* lines 200-202: the source is exhausted
PagerEnd ==
    /\ pgPc = "loop"
    /\ pgPos >= Len(pgLines)
    /\ screen' = screen \o PrintPage(page) \o <<Shown("end", <<>>, 0)>>
    /\ pgPc' = "done"
    /\ UNCHANGED <<pgLines, pgFilter, pgSize, pgPos, page, printed>>
    /\ UNCHANGED <<classVars, fileVars, loadVars, junkVars>>

(***************************************************************************)
(* Junk detector run: a line is assembled from runs of one character and   *)
(* tested after each extension.                                            *)
(***************************************************************************)
MaxRuns == 2

RunChars == {NUL, SP, "a", LF, CR}

RunLengths == {1, 4, 5, 80, 90, 200}

\* the number of maximal runs of one character in s
NumRuns(s) ==
    Cardinality({i \in DOMAIN s : IF i = Len(s) THEN TRUE ELSE s[i] # s[i + 1]})

JunkIdle ==
    /\ jline = <<>>
    /\ junk = is_junk_line(<<>>)

\* is_junk_line applied to the line extended by n characters c
Junk(c, n) ==
    /\ (IF jline = <<>> THEN TRUE ELSE jline[Len(jline)] # c)
    /\ NumRuns(jline) < MaxRuns
    /\ jline' = jline \o Rep(c, n)
    /\ junk' = is_junk_line(jline')
    /\ UNCHANGED <<classVars, fileVars, loadVars, pagerVars>>

(***************************************************************************)
(* Chunked loader: LogLoaderThread, and the consumer LogAnalyzerGUI        *)
(***************************************************************************)
MaxLoads == 2
MaxLines == 3
MaxChunk == 2

Threads == 1..MaxLoads

NoFail == -1

ERROR_PREFIX == <<"_","_","E","R","R","O","R","_","_",":">>
DONE_TEXT    == <<"_","_","D","O","N","E","_","_">>
LOADED_TEXT  == <<"L","o","a","d","e","d",":",SP>>
LOADING_TEXT == <<"L","o","a","d","i","n","g",SP>>
READY_TEXT   == <<"R","e","a","d","y">>

\* str(e) of the OSError a failing open or read raises
ErrText == <<"E","I","O">>

Msg(n, payload, kind, t) == [count |-> n, payload |-> payload, kind |-> kind, by |-> t]

\* a plausible slip: a LIFO queue, the newest message handed out first
Put_lifo(t, m) ==
    /\ queue' = <<m>> \o queue
    /\ produced' = [produced EXCEPT ![t] = Append(@, m)]

\* self.out_queue.put(m) by thread t; produced[t] keeps the history of its puts
Put(t, m) ==
    /\ queue' = Append(queue, m)
    /\ produced' = [produced EXCEPT ![t] = Append(@, m)]

\* line 225: the file is opened; a failure is caught by the except clause
RunOpen(t) ==
    /\ pc[t] = "open"
    /\ pc' = [pc EXCEPT ![t] = IF failAt[t] = 0 THEN "except" ELSE "read"]
    /\ UNCHANGED <<file, fh, failAt, chunk, started, pos, cur, batch, count,
                   stopFlag, stopAt, queue, produced, view, status, guiPath, taken>>
    /\ UNCHANGED <<classVars, fileVars, pagerVars, junkVars>>

\* line 227: the iterator yields the next line, ends, or the read raises
RunRead(t) ==
    /\ pc[t] = "read"
    /\ LET lines == fh[t]
       IN  IF failAt[t] = pos[t] + 1
           THEN /\ pc' = [pc EXCEPT ![t] = "except"]
                /\ UNCHANGED <<pos, cur>>
           ELSE IF pos[t] >= Len(lines)
           THEN /\ pc' = [pc EXCEPT ![t] = "flush"]
                /\ UNCHANGED <<pos, cur>>
           ELSE /\ pc' = [pc EXCEPT ![t] = "check"]
                /\ pos' = [pos EXCEPT ![t] = @ + 1]
                /\ cur' = [cur EXCEPT ![t] = lines[pos[t] + 1]]
    /\ UNCHANGED <<file, fh, failAt, chunk, started, batch, count,
                   stopFlag, stopAt, queue, produced, view, status, guiPath, taken>>
    /\ UNCHANGED <<classVars, fileVars, pagerVars, junkVars>>

\* a plausible slip: a batch is sent only once it exceeds the chunk size
BatchFull_gt(b, c) == Len(b) > c

\* line 233
BatchFull(b, c) == Len(b) >= c

\* a plausible slip: the loop never looks at the flag
IsSet_never(t) == FALSE

\* line 228: self._stop.is_set()
IsSet(t) == stopFlag[t]

\* lines 228-235: the loop body for the line just read
RunLine(t) ==
    /\ pc[t] = "check"
    /\ IF IsSet(t)
       THEN /\ pc' = [pc EXCEPT ![t] = "flush"]
            /\ UNCHANGED <<batch, count, queue, produced>>
       ELSE LET b == Append(batch[t], cur[t])
                n == count[t] + 1
            IN  /\ pc' = [pc EXCEPT ![t] = "read"]
                /\ count' = [count EXCEPT ![t] = n]
                /\ IF BatchFull(b, chunk[t])
                   THEN /\ Put(t, Msg(n, Join(b), "Data", t))
                        /\ batch' = [batch EXCEPT ![t] = <<>>]
                   ELSE /\ batch' = [batch EXCEPT ![t] = b]
                        /\ UNCHANGED <<queue, produced>>
    /\ UNCHANGED <<file, fh, failAt, chunk, started, pos, cur,
                   stopFlag, stopAt, view, status, guiPath, taken>>
    /\ UNCHANGED <<classVars, fileVars, pagerVars, junkVars>>

\* lines 236-237: after the loop (exhausted or broken out of), the rest is sent
RunFlush(t) ==
    /\ pc[t] = "flush"
    /\ IF batch[t] # <<>>
       THEN Put(t, Msg(count[t], Join(batch[t]), "Data", t))
       ELSE UNCHANGED <<queue, produced>>
    /\ pc' = [pc EXCEPT ![t] = "finally"]
    /\ UNCHANGED <<file, fh, failAt, chunk, started, pos, cur, batch, count,
                   stopFlag, stopAt, view, status, guiPath, taken>>
    /\ UNCHANGED <<classVars, fileVars, pagerVars, junkVars>>

\* lines 238-239
RunExcept(t) ==
    /\ pc[t] = "except"
    /\ Put(t, Msg(0, ERROR_PREFIX \o ErrText, "Error", t))
    /\ pc' = [pc EXCEPT ![t] = "finally"]
    /\ UNCHANGED <<file, fh, failAt, chunk, started, pos, cur, batch, count,
                   stopFlag, stopAt, view, status, guiPath, taken>>
    /\ UNCHANGED <<classVars, fileVars, pagerVars, junkVars>>

\* lines 240-241
RunFinally(t) ==
    /\ pc[t] = "finally"
    /\ Put(t, Msg(-1, DONE_TEXT, "Done", t))
    /\ pc' = [pc EXCEPT ![t] = "done"]
    /\ UNCHANGED <<file, fh, failAt, chunk, started, pos, cur, batch, count,
                   stopFlag, stopAt, view, status, guiPath, taken>>
    /\ UNCHANGED <<classVars, fileVars, pagerVars, junkVars>>

\* LogLoaderThread.stop, callable on any constructed thread
Stop(t) ==
    /\ pc[t] # "none"
    /\ ~stopFlag[t]
    /\ stopFlag' = [stopFlag EXCEPT ![t] = TRUE]
    /\ stopAt' = [stopAt EXCEPT ![t] = [set |-> TRUE, pc |-> pc[t], pos |-> pos[t],
                                        sent |-> Len(produced[t])]]
    /\ UNCHANGED <<file, fh, failAt, chunk, started, pc, pos, cur, batch, count,
                   queue, produced, view, status, guiPath, taken>>
    /\ UNCHANGED <<classVars, fileVars, pagerVars, junkVars>>

(***************************************************************************)
(* Consumer                                                                *)
(***************************************************************************)
\* str.splitlines(True) on the model's alphabet: ends are kept as they are
SplitLines(s) == Pieces(s)

\* the levels whose IntVar is set; every one is created with value 1
Allowed == Categories

\* highlight_filters: the widget's text (text.get up to END carries the
\* widget's final newline) is re-inserted line by line, filtered by level
highlight_filters(text) ==
    Join(SelectSeq(SplitLines(Append(text, LF)), LAMBDA l : classify_line(l) \in Allowed))

\* the history entry of a get: the message, and the load session (the number
\* of load_path calls so far) during which it was taken
Got(m) ==
    [count |-> m.count, payload |-> m.payload, kind |-> m.kind, by |-> m.by,
     during |-> started]

RECURSIVE Drain(_, _)
\* the loop of _poll_queue over what the queue holds; st is the consumer's state
Drain(q, st) ==
    IF q = <<>> THEN [st EXCEPT !.queue = q]
    ELSE LET m    == Head(q)
             got  == [st EXCEPT !.taken = Append(@, Got(m))]
         IN  IF m.count = -1 /\ m.payload = DONE_TEXT
             THEN [got EXCEPT !.queue = Tail(q),
                              !.status = LOADED_TEXT \o guiPath,
                              !.view = highlight_filters(@)]
             ELSE IF StartsWith(m.payload, ERROR_PREFIX)
             THEN [got EXCEPT !.queue = Tail(q), !.status = m.payload]
             ELSE Drain(Tail(q), [got EXCEPT !.view = @ \o m.payload])

\* LogAnalyzerGUI._poll_queue, run every 250 ms by the event loop
PollQueue ==
    /\ queue # <<>>
    /\ LET st == Drain(queue, [queue |-> queue, view |-> view, status |-> status, taken |-> taken])
       IN  /\ queue' = st.queue
           /\ view' = st.view
           /\ status' = st.status
           /\ taken' = st.taken
    /\ UNCHANGED <<file, fh, failAt, chunk, started, pc, pos, cur, batch, count,
                   stopFlag, stopAt, produced, guiPath>>
    /\ UNCHANGED <<classVars, fileVars, pagerVars, junkVars>>

LoaderLines == { <<"a",LF>>, <<"b",LF>>, ERROR_PREFIX \o <<LF>> }

RECURSIVE LoaderTexts(_)
LoaderTexts(n) ==
    IF n = 0 THEN {<<>>}
    ELSE LET shorter == LoaderTexts(n - 1)
         IN  shorter \cup {t \o l : t \in shorter, l \in LoaderLines}

FileNames == <<<<"a",".","l","o","g">>, <<"b",".","l","o","g">>, <<"c",".","l","o","g">>>>

\* LogAnalyzerGUI.load_path: the view is cleared and a new loader thread is
\* started on the shared queue (text is the file's content, which the
\* thread will read as the lines fh; f where its reading fails, c the
\* thread's chunk size)
load_path(t, text, f, c) ==
    /\ pc[t] = "none"
    /\ guiPath' = FileNames[((t - 1) % Len(FileNames)) + 1]
    /\ view' = <<>>
    /\ status' = LOADING_TEXT \o guiPath'
    /\ file' = [file EXCEPT ![t] = text]
    /\ fh' = [fh EXCEPT ![t] = ReadLines(text)]
    /\ failAt' = [failAt EXCEPT ![t] = f]
    /\ chunk' = [chunk EXCEPT ![t] = c]
    /\ pc' = [pc EXCEPT ![t] = "open"]
    /\ started' = started + 1
    /\ UNCHANGED <<pos, cur, batch, count, stopFlag, stopAt, queue, produced, taken>>
    /\ UNCHANGED <<classVars, fileVars, pagerVars, junkVars>>

LoadInit ==
    /\ file = [t \in Threads |-> <<>>]
    /\ fh = [t \in Threads |-> <<>>]
    /\ failAt = [t \in Threads |-> NoFail]
    /\ chunk = [t \in Threads |-> 1]
    /\ started = 0
    /\ pc = [t \in Threads |-> "none"]
    /\ pos = [t \in Threads |-> 0]
    /\ cur = [t \in Threads |-> <<>>]
    /\ batch = [t \in Threads |-> <<>>]
    /\ count = [t \in Threads |-> 0]
    /\ stopFlag = [t \in Threads |-> FALSE]
    /\ stopAt = [t \in Threads |-> [set |-> FALSE, pc |-> "none", pos |-> 0, sent |-> 0]]
    /\ queue = <<>>
    /\ produced = [t \in Threads |-> <<>>]
    /\ view = <<>>
    /\ status = READY_TEXT
    /\ guiPath = <<>>
    /\ taken = <<>>

FailPoints(text) == {NoFail} \cup 0..(Len(ReadLines(text)) + 1)

\* one load session: load_path is called once
LoadOnce ==
    /\ started = 0
    /\ \E text \in LoaderTexts(MaxLines), c \in 1..MaxChunk :
           \E f \in FailPoints(text) : load_path(1, text, f, c)

\* the file the t-th load session opens: two lines of its own
ReloadText(t) == <<LowerLetters[t], LF, UpperLetters[t], LF>>

\* load_path called again, whatever the earlier sessions' threads are doing
\* (the first call included); the file is read in chunks of one, or cannot
\* be opened
Reload ==
    /\ started < MaxLoads
    /\ \E f \in {NoFail, 0} : load_path(started + 1, ReloadText(started + 1), f, 1)

Run(t) ==
    \/ RunOpen(t)
    \/ RunRead(t)
    \/ RunLine(t)
    \/ RunFlush(t)
    \/ RunExcept(t)
    \/ RunFinally(t)

(***************************************************************************)
(* Specifications                                                          *)
(***************************************************************************)
ClassifyInit == ClassInit /\ FileIdle /\ LoadInit /\ PagerIdle /\ JunkIdle

ClassifyNext == \E w \in Words : Classify(w)

\* the classifier applied to assembled lines
SpecClassify == ClassifyInit /\ [][ClassifyNext]_vars

FilesInit == ClassInit /\ FileInit /\ LoadInit /\ PagerIdle /\ JunkIdle

FilesNext ==
    \/ \E path \in CleanTargets, inplace \in BOOLEAN, t \in Times : Clean(path, inplace, t)
    \/ \E order \in SinkOrders, t \in Times : SaveSplit(Input, order, t, NoFault)

\* the cleaner and the split writer on a directory
SpecFiles == FilesInit /\ [][FilesNext]_vars

SplitNext ==
    \E order \in SinkOrders, t \in Times, fault \in Faults :
        log = <<>> /\ SaveSplit(Input, order, t, fault)

\* one call of the split writer in which an open, a read or a write may fail
SpecSplit == FilesInit /\ [][SplitNext]_vars

PagerInit == ClassInit /\ FileIdle /\ LoadInit /\ PagerIdle /\ JunkIdle

PagerNext ==
    \/ \E exists \in BOOLEAN, text \in PagerTexts(MaxPagerLines),
          page_size \in 1..MaxPage, filter_levels \in PagerFilters :
            PagerStart(exists, text, page_size, filter_levels)
    \/ PagerLine
    \/ \E inp \in Answers : PagerAnswer(inp)
    \/ PagerEnd

\* one call of the paged viewer with the answers typed at its prompts
SpecPager == PagerInit /\ [][PagerNext]_vars

JunkInit == ClassInit /\ FileIdle /\ LoadInit /\ PagerIdle /\ JunkIdle

JunkNext == \E c \in RunChars, n \in RunLengths : Junk(c, n)

\* the junk detector applied to assembled lines
SpecJunk == JunkInit /\ [][JunkNext]_vars

Init == ClassInit /\ FileIdle /\ LoadInit /\ PagerIdle /\ JunkIdle

Next ==
    \/ LoadOnce
    \/ \E t \in Threads : Run(t)
    \/ \E t \in Threads : Stop(t)
    \/ PollQueue

\* one load session of the GUI: a producer thread, stop(), and the polling consumer
Spec == Init /\ [][Next]_vars

\* the same with the scheduler's guarantee: a started thread that can take a
\* step of run() is eventually given one (it reads a regular file and puts
\* on an unbounded queue, so it never blocks)
LiveSpec == Init /\ [][Next]_vars /\ \A t \in Threads : WF_vars(Run(t))

ReloadNext ==
    \/ Reload
    \/ \E t \in Threads : Run(t)
    \/ PollQueue

\* load sessions started one after another on the one queue and the one view
SpecReload == Init /\ [][ReloadNext]_vars

(***************************************************************************)
(* Properties of the chunked loader (specification Spec)                   *)
(***************************************************************************)
Terminal(m) == m.kind \in {"Done", "Error"}

Kinds(h, k) == {i \in DOMAIN h : h[i].kind = k}

Min(a, b) == IF a <= b THEN a ELSE b

SourceLines(t) == ReadLines(file[t])

\* C1: in every load session the producer enqueues at most one terminal
\* message (Done or Error) and nothing after it, and a session in which an
\* Error was enqueued holds no Done; a finished session that met no error
\* ends with Done.
C1_OneTerminalMessage ==
    \A t \in Threads :
        LET h     == produced[t]
            terms == {i \in DOMAIN h : Terminal(h[i])}
        IN  /\ Cardinality(terms) <= 1
            /\ \A i \in terms : i = Len(h)
            /\ Kinds(h, "Error") # {} => Kinds(h, "Done") = {}
            /\ pc[t] = "done" /\ Kinds(h, "Error") = {} => h[Len(h)].kind = "Done"

\* C2: when stop() was called after the thread's first Data message was
\* enqueued and while lines of the source were still unread, the thread
\* never enqueues a Done or an Error message.
C2_NoTerminalAfterStop ==
    \A t \in Threads :
        ( /\ stopAt[t].set
          /\ \E i \in 1..stopAt[t].sent : produced[t][i].kind = "Data"
          /\ stopAt[t].pc \in {"read", "check"}
          /\ stopAt[t].pos < Len(SourceLines(t)) )
        => \A i \in DOMAIN produced[t] : ~Terminal(produced[t][i])

\* a run of the thread that ended with no read error and no stop() before its end
CleanRun(t) ==
    /\ pc[t] = "done"
    /\ failAt[t] = NoFail
    /\ ~stopAt[t].set \/ stopAt[t].pc = "done"

\* C3: a source of N lines read with chunk size C, no error and no stop
\* yields ceil(N/C) Data messages, the i-th holding lines (i-1)C+1 .. min(iC, N)
\* and the counter min(iC, N) (so every one has C lines but possibly the
\* last, whose counter is N), followed by exactly one Done as the last message.
C3_ChunksThenDone ==
    \A t \in Threads :
        CleanRun(t) =>
            LET lines == SourceLines(t)
                N     == Len(lines)
                C     == chunk[t]
                h     == produced[t]
                K     == (N + C - 1) \div C
            IN  /\ Len(h) = K + 1
                /\ h[K + 1].kind = "Done" /\ h[K + 1].count = -1 /\ h[K + 1].payload = DONE_TEXT
                /\ \A i \in 1..K :
                       /\ h[i].kind = "Data"
                       /\ h[i].payload = Join(SubSeq(lines, (i - 1) * C + 1, Min(i * C, N)))
                       /\ Len(SplitLines(h[i].payload)) = (IF i < K THEN C ELSE N - (K - 1) * C)
                       /\ h[i].count = Min(i * C, N)
                /\ K > 0 => h[K].count = N

\* C3 witness: a clean run over 3 lines with chunk size 2 (a full batch, then a shorter one)
C3_Witness ==
    \E t \in Threads :
        /\ CleanRun(t)
        /\ Len(SourceLines(t)) = 3
        /\ chunk[t] = 2
        /\ Len(produced[t]) = 3

TakenData == SelectSeq(taken, LAMBDA m : m.kind = "Data")

Payloads(ms) == Join([i \in DOMAIN ms |-> ms[i].payload])

\* C4: with a single producer, the Data payloads dequeued so far, joined in
\* dequeue order, are the first k lines of the source for some k, and each
\* Data message's counter is the number of lines in the Data messages up to
\* and including it, so the counters strictly increase.
C4_PrefixInOrder ==
    started = 1 =>
        LET ms    == TakenData
            lines == SourceLines(1)
        IN  /\ \E k \in 0..Len(lines) : Payloads(ms) = Join(SubSeq(lines, 1, k))
            /\ \A i \in DOMAIN ms :
                   /\ ms[i].count = Len(SplitLines(Payloads(SubSeq(ms, 1, i))))
                   /\ i > 1 => ms[i].count > ms[i - 1].count

\* C4 witness: two Data messages of different content were dequeued, the queue
\* having been polled while the producer was still running
C4_Witness ==
    /\ started = 1
    /\ Len(TakenData) >= 2
    /\ TakenData[1].payload # TakenData[2].payload
    /\ Len(taken) = 2
    /\ pc[1] \notin {"done", "finally"}

\* the number of source lines carried by the Data messages thread t has put
DataLines(t) ==
    Len(SplitLines(Payloads(SelectSeq(produced[t], LAMBDA m : m.kind = "Data"))))

\* after stop(): at most one more line was read, and the Data messages hold
\* only lines read before it
StopHeeded(t) ==
    stopAt[t].set =>
        /\ pos[t] <= stopAt[t].pos + 1
        /\ DataLines(t) <= stopAt[t].pos

\* C17: once stop() has set the flag the producer reads at most one further
\* line, puts no line read after that into a Data message, and its run()
\* comes to its end.
C17_StopIsHeeded ==
    /\ [](\A t \in Threads : StopHeeded(t))
    /\ \A t \in Threads : (stopFlag[t] ~> pc[t] = "done")

\* C17 witness: stop() came while the loop was about to read, with a batch
\* half full and two lines unread; one more line was read, the half batch
\* was sent short and run() ended with a line still unread
C17_Witness ==
    \E t \in Threads :
        /\ stopAt[t].set
        /\ stopAt[t].pc = "read"
        /\ stopAt[t].pos = 1
        /\ chunk[t] = 2
        /\ pos[t] = 2
        /\ Len(SourceLines(t)) = 3
        /\ DataLines(t) = 1
        /\ pc[t] = "done"

\* C18: once the consumer has processed the Error message of a load session,
\* the status of that session is never the success status.
C18_ErrorStaysSurfaced ==
    (\E i \in DOMAIN taken : taken[i].kind = "Error") => ~StartsWith(status, LOADED_TEXT)

\* C20: the consumer treats Data messages as data whatever their text: as
\* long as every message taken was enqueued as Data, the view holds their
\* payloads in order and the status is still the loading status.
C20_DataIsNeverASentinel ==
    (started = 1 /\ \A i \in DOMAIN taken : taken[i].kind = "Data") =>
        /\ view = Payloads(taken)
        /\ status = LOADING_TEXT \o guiPath

(***************************************************************************)
(* Properties of repeated loads (specification SpecReload)                 *)
(***************************************************************************)
\* the Done of the current session has been processed
CurrentDone ==
    \E i \in DOMAIN taken :
        taken[i].kind = "Done" /\ taken[i].by = started /\ taken[i].during = started

\* C19: a message is delivered only during the session of the thread that
\* put it: nothing of an earlier session reaches the view of a later one,
\* and from the Done of the current session on the view holds exactly the
\* lines of the file that session loaded, in order.
C19_OneProducerPerSession ==
    /\ \A i \in DOMAIN taken :
           taken[i].kind \in {"Data", "Done"} => taken[i].by = taken[i].during
    /\ (CurrentDone /\ failAt[started] = NoFail)
           => view = highlight_filters(Join(SourceLines(started)))

(***************************************************************************)
(* Properties of the cleaner and the split writer (specification SpecFiles)*)
(***************************************************************************)
Last == log[Len(log)]

NonJunk(lines) == SelectSeq(lines, LAMBDA l : ~is_junk_line(l))

\* the last call was a clean_whitespace_lines that returned
CleanReturned(inplace) ==
    /\ log # <<>>
    /\ Last.op = "clean"
    /\ Last.inplace = inplace
    /\ Last.raised = ""

\* C5: after clean_whitespace_lines(path, inplace=True) the file at path
\* holds exactly the non-junk lines of its previous content, in order.
C5_InplaceKeepsNonJunk ==
    CleanReturned(TRUE) =>
        ReadLines(Content(fs, Last.src)) = NonJunk(ReadLines(Content(Last.before, Last.src)))

\* C6: after clean_whitespace_lines(path, inplace=False) the returned file
\* holds exactly the non-junk lines of the input in order, the input file is
\* unchanged, and the file written did not exist before the call.
C6_CopyOverwritesNothing ==
    CleanReturned(FALSE) =>
        LET out == Last.opened[1]
        IN  /\ ReadLines(Content(fs, out.path)) = NonJunk(ReadLines(Content(Last.before, Last.src)))
            /\ Content(fs, Last.src) = Content(Last.before, Last.src)
            /\ ~out.existed

\* C7: of two save_split_logs runs with the same directory and prefix, the
\* later one opens no path for writing that the earlier one wrote.
C7_SecondRunSparesFirst ==
    \A j, k \in DOMAIN log :
        (j < k /\ log[j].op = "split" /\ log[k].op = "split" /\ log[j].src = log[k].src) =>
            \A a \in DOMAIN log[j].opened, b \in DOMAIN log[k].opened :
                log[j].opened[a].path # log[k].opened[b].path

\* C8: every path make_unique_path returned was the path of no existing file
\* when it was returned.
C8_UniquePathIsFree ==
    \A k \in DOMAIN log : \A i \in DOMAIN log[k].opened :
        log[k].opened[i].unique => ~log[k].opened[i].existed

\* the path save_split_logs opened for a level
SinkOf(call, lvl) ==
    call.opened[CHOOSE i \in DOMAIN call.opened : call.opened[i].lvl = lvl].path

RECURSIVE SumLen(_, _)
SumLen(d, paths) ==
    IF paths = {} THEN 0
    ELSE LET p == CHOOSE q \in paths : TRUE
         IN  Len(ReadLines(Content(d, p))) + SumLen(d, paths \ {p})

SplitReturned ==
    /\ log # <<>>
    /\ Last.op = "split"
    /\ Last.raised = ""

\* C9: save_split_logs writes every input line verbatim to exactly one sink,
\* the sink of its classify_line category: seven distinct sinks exist, each
\* holds exactly the input lines of its category in input order, and together
\* they hold as many lines as the input.
C9_SplitPartitions ==
    SplitReturned =>
        LET paths == {Last.opened[i].path : i \in DOMAIN Last.opened}
        IN  /\ {Last.opened[i].lvl : i \in DOMAIN Last.opened} = Categories
            /\ Cardinality(paths) = Cardinality(Categories)
            /\ \A lvl \in Categories :
                   Content(fs, SinkOf(Last, lvl))
                       = Join(SelectSeq(Last.input, LAMBDA l : classify_line(l) = lvl))
            /\ SumLen(fs, paths) = Len(Last.input)

\* C9 witness: a split of two lines of different categories has returned
C9_Witness ==
    /\ SplitReturned
    /\ Len(Last.input) = 2
    /\ classify_line(Last.input[1]) # classify_line(Last.input[2])
    /\ Content(fs, SinkOf(Last, classify_line(Last.input[1]))) = Last.input[1]

\* the explicit files of the directory
Files(d) == DOMAIN d.files

\* C12: a clean_whitespace_lines or a save_split_logs fed by iter_lines(path)
\* that fails because the input file is missing leaves the directory with
\* no new file.
C12_NoSinkWithoutSource ==
    \A k \in DOMAIN log :
        log[k].raised = "FileNotFoundError" =>
            /\ log[k].opened = <<>>
            /\ k = Len(log) => Files(fs) = Files(log[k].before)

\* call k cleaned the file that call j, the call before it, had produced
CleansOutputOf(k, j) ==
    /\ j = k - 1
    /\ log[j].op = "clean" /\ log[j].raised = ""
    /\ log[k].op = "clean" /\ log[k].raised = ""
    /\ log[k].src = log[j].opened[1].path

\* C14: a clean_whitespace_lines run on the output of a previous
\* clean_whitespace_lines run finds no junk line in it and produces a file
\* with the same line sequence as that output.
C14_CleanIsIdempotent ==
    \A j, k \in DOMAIN log :
        (k = Len(log) /\ CleansOutputOf(k, j)) =>
            LET given == ReadLines(Content(log[k].before, log[k].src))
            IN  /\ NonJunk(given) = given
                /\ ReadLines(Content(fs, log[k].opened[1].path)) = given

(***************************************************************************)
(* Properties of one split with failures (specification SpecSplit)         *)
(***************************************************************************)
\* the positions of a call's steps of one kind
Steps(E, ev) == {i \in DOMAIN E : E[i].ev = ev}

\* C13: in save_split_logs every sink is opened before the first line is
\* consumed, one sink per category when no open fails; on every exit path
\* (return, a failing open, an error of the source, a failing write) every
\* handle that was opened is closed, after its last write and before the
\* call is left; after an error no line is read or written and no sink opened.
C13_SinksOpenedFirstClosedAlways ==
    \A k \in DOMAIN log :
        log[k].op = "split" =>
            LET E == log[k].events
            IN  /\ \A i \in Steps(E, "open"), j \in Steps(E, "read") : i < j
                /\ Steps(E, "read") \cup Steps(E, "return") # {}
                       => {E[i].lvl : i \in Steps(E, "open")} = Categories
                /\ {E[i].lvl : i \in Steps(E, "open")}
                       = {log[k].opened[i].lvl : i \in DOMAIN log[k].opened}
                /\ \A i \in DOMAIN log[k].opened : Exists(fs, log[k].opened[i].path)
                /\ E[Len(E)].ev = (IF log[k].raised = "" THEN "return" ELSE "raise")
                /\ \A i \in Steps(E, "open") :
                       \E j \in Steps(E, "close") :
                           /\ E[j].lvl = E[i].lvl
                           /\ i < j /\ j < Len(E)
                           /\ \A w \in Steps(E, "write") : E[w].lvl = E[i].lvl => w < j
                /\ \A i \in Steps(E, "error") :
                       \A j \in Steps(E, "read") \cup Steps(E, "write") \cup Steps(E, "open") : j < i

\* C13 witness: the write of the second line failed after the first line was
\* written; the first line is in its sink and the call was left by raise
C13_Witness ==
    /\ log # <<>>
    /\ Last.op = "split"
    /\ Last.raised = "OSError"
    /\ \E i \in Steps(Last.events, "error") : Last.events[i].n = 2 /\ Last.events[i].lvl # ""
    /\ Len(Last.input) = 2
    /\ Content(fs, SinkOf(Last, classify_line(Last.input[1]))) = Last.input[1]
    /\ Cardinality(Steps(Last.events, "close")) = Cardinality(Categories)

(***************************************************************************)
(* Properties of the classifier (specification SpecClassify)               *)
(***************************************************************************)
\* the line holds the token as a whole word, in any letter case
HasWord(s, w) == Search({w}, s)

W_ERROR   == <<"E","R","R","O","R">>
W_WARN    == <<"W","A","R","N">>
W_WARNING == <<"W","A","R","N","I","N","G">>
W_INVALID == <<"I","N","V","A","L","I","D">>
W_SUCCESS == <<"S","U","C","C","E","S","S">>
W_DEBUG   == <<"D","E","B","U","G">>

\* C10 as stated: a line containing the whole word ERROR classifies as
\* error whatever other tokens it holds.
C10_ErrorAlwaysWins ==
    HasWord(line, W_ERROR) => cls = "error"

\* C10 amended: a line containing the whole word ERROR classifies as error
\* unless it also holds WARN or WARNING (then warning), or holds SUCCESS and
\* none of INVALID, WARN, WARNING (then success); no other token changes it.
C10_ErrorUnlessLongerPattern ==
    HasWord(line, W_ERROR) =>
        cls = IF HasWord(line, W_WARN) \/ HasWord(line, W_WARNING) THEN "warning"
              ELSE IF HasWord(line, W_INVALID) THEN "error"
              ELSE IF HasWord(line, W_SUCCESS) THEN "success"
              ELSE "error"

\* C10 witness: a line with a lower-case error and DEBUG classified as error
C10_Witness ==
    /\ HasWord(line, W_ERROR)
    /\ Head(line) = "e"
    /\ HasWord(line, W_DEBUG)
    /\ cls = "error"

\* the rules of LEVEL_MAP, by declaration index, whose pattern is found in s
Matching(s) == {i \in DOMAIN LEVEL_MAP : Search(Compile(LEVEL_MAP[i].src), s)}

\* rule i goes before rule j: a longer source text, or an equally long one
\* declared no later
Precedes(i, j) ==
    \/ Len(LEVEL_MAP[i].src) > Len(LEVEL_MAP[j].src)
    \/ Len(LEVEL_MAP[i].src) = Len(LEVEL_MAP[j].src) /\ i <= j

\* C11: classify_line returns the category of the matching rule with the
\* longest pattern source text, the earliest declared among equally long
\* ones; it returns other exactly when the line is empty or no rule matches.
C11_LongestSourceWins ==
    LET ms == Matching(line)
    IN  IF line = <<>> \/ ms = {}
        THEN cls = "other"
        ELSE /\ cls # "other"
             /\ \E i \in ms : (\A j \in ms : Precedes(i, j)) /\ cls = LEVEL_MAP[i].lvl

\* C11 witness: SUCCESS and INVALID, equally long sources of different
\* categories, match with nothing longer; the earlier declared INVALID decides
C11_Witness ==
    /\ HasWord(line, W_SUCCESS)
    /\ HasWord(line, W_INVALID)
    /\ ~HasWord(line, W_WARN)
    /\ ~HasWord(line, W_WARNING)
    /\ cls = "error"

(***************************************************************************)
(* Properties of the paged viewer (specification SpecPager)                *)
(***************************************************************************)
\* the lines of the source that pass the filter, in source order
Matched == SelectSeq(pgLines, LAMBDA l : pgFilter = {} \/ classify_line(l) \in pgFilter)

\* what was printed as lines of the log, in order
Emitted == SelectSeq(screen, LAMBDA e : e.kind = "line")

\* the number of log lines printed up to position i of the screen
EmittedUpTo(i) == Cardinality({j \in 1..i : screen[j].kind = "line"})

\* C15: pseudo_gui_mode with a filter and page size P prints only lines whose
\* category is in the filter, in source order; it prompts exactly after each
\* P printed lines, lines outside the filter not counting; and after the
\* answer quit it prints nothing more.
C15_PagesOfMatchingLines ==
    /\ Len(Emitted) <= Len(Matched)
    /\ \A i \in DOMAIN Emitted : Emitted[i].text = RStrip(Matched[i], SpaceChars)
    /\ \A i \in DOMAIN screen :
           /\ (screen[i].kind = "line" /\ EmittedUpTo(i) % pgSize = 0)
                  => (i < Len(screen) /\ screen[i + 1].kind = "prompt")
           /\ screen[i].kind = "prompt"
                  => /\ i > 1 /\ screen[i - 1].kind = "line"
                     /\ EmittedUpTo(i) % pgSize = 0
                     /\ screen[i].n = EmittedUpTo(i)
           /\ (screen[i].kind = "answer" /\ Lower(Strip(screen[i].text)) = <<"q">>)
                  => (i = Len(screen) /\ pgPc = "quit")
    /\ pgPc = "quit" => screen[Len(screen)].kind = "answer"

\* C15 witness: with a filter and pages of two, a line outside the filter was
\* passed over, a full page was shown and quit was answered before the end
C15_Witness ==
    /\ pgPc = "quit"
    /\ pgFilter # {}
    /\ pgSize = 2
    /\ Len(Emitted) = 2
    /\ pgPos = 3
    /\ pgPos < Len(pgLines)

(***************************************************************************)
(* Properties of the junk detector (specification SpecJunk)                *)
(***************************************************************************)
\* the line without its trailing line-ending characters
Stripped == RStrip(jline, {LF, CR})

\* C16: is_junk_line is true exactly when the line, its trailing line ends
\* stripped, is empty or whitespace only, or more than half of it is NUL, or
\* it has fewer than 5 visible characters while being longer than 80; so it
\* is true for 200 NULs and for 90 spaces and false for 80 readable characters.
C16_JunkExactly ==
    LET nuls    == Len(SelectSeq(Stripped, LAMBDA c : c = NUL))
        visible == Len(SelectSeq(Stripped, LAMBDA c : c # NUL /\ c \notin SpaceChars))
    IN  /\ junk <=> \/ SelectSeq(Stripped, LAMBDA c : c \notin SpaceChars) = <<>>
                    \/ 2 * nuls > Len(Stripped)
                    \/ visible < MIN_VISIBLE /\ Len(Stripped) > LONG_LINE
        /\ jline = Rep(NUL, 200) => junk
        /\ jline = Rep(SP, 90) => junk
        /\ jline = Rep("a", 80) => ~junk

\* C16 witness: four readable characters before 80 spaces, junk by the third
\* rule alone
C16_Witness ==
    /\ jline = Rep("a", 4) \o Rep(SP, 80)
    /\ junk

====
